---- MODULE Spec2Model ----
(***************************************************************************)
(* A model of the responsys Interact client library.                       *)
(*                                                                         *)
(*   Spec            the session state machine of InteractClient           *)
(*                   (client.py): connect, disconnect, call and its fault  *)
(*                   translation, a facade operation, the clock            *)
(*   SpecRecordData  RecordData built from row mappings and iterated       *)
(*                   (types.py)                                            *)
(*   SpecInteractType attribute registration and get_soap_object of        *)
(*                   InteractType (types.py)                               *)
(*   SpecMergeResult MergeResult.failed over error messages (types.py)     *)
(*   SpecFacade      the facade operations of InteractClient: the remote   *)
(*                   method, the arguments sent, the result returned       *)
(*   SpecWith        InteractClient as a context manager                   *)
(*   SpecEquality    InteractType.__eq__ (types.py)                        *)
(*   SpecRecordWire  RecordData to the wire and back (types.py)            *)
(*   SpecRecipient   the construction of a Recipient (types.py)            *)
(*                                                                         *)
(* Python values: None, False and () are the empty tuple <<>>; the         *)
(* Session tuple [session_id, time()] is <<session_id, issued_at>>; the    *)
(* connected marker is <<>> (False) or <<t>> (the float time() returned).  *)
(* Where the type of a value matters it is a record with a type field; a   *)
(* str that is parsed is the sequence of its characters.                   *)
(***************************************************************************)
EXTENDS Integers, Sequences, FiniteSets, TLC

VARIABLES
    session,            \* InteractClient._session
    soapheaders,        \* the soapheaders option of the suds client
    connected,          \* InteractClient._connected
    session_lifetime,   \* InteractClient.session_lifetime
    now,                \* what time() returns
    login_count,        \* invocations of InteractClient.login
    logout_count,       \* invocations of InteractClient.logout
    header_installs,    \* set_options(soapheaders=<a SessionHeader>) calls
    session_sets,       \* assignments to InteractClient.session
    ncalls,             \* client methods called so far
    nticks,             \* clock advances so far
    last,               \* the most recent client method call and its outcome
    hist,               \* what has happened at some time in this run
    rd_rows,            \* the row mappings given to RecordData(...)
    rd,                 \* the RecordData built from them (or the error raised)
    rd_iter,            \* what iterating that RecordData gave
    it_dict,            \* an InteractType instance's attributes (__dict__)
    it_attributes,      \* its _attributes set
    it_soap,            \* the last structure its get_soap_object returned
    fc,                 \* the most recent facade operation: what it sent and returned
    ctx,                \* the with statement over the client that is under way
    rd_wire,            \* a RecordData wire structure
    rd_back,            \* the RecordData that from_soap_type built from it
    mr_message,         \* the errorMessage of a merge result
    mr_failed,          \* what MergeResult.failed gave for it
    eq_a,               \* two InteractType instances ...
    eq_b,
    eq_res,             \* ... and the outcomes of a == b and b == a
    rc_args,            \* the arguments given to Recipient(...)
    rc_res              \* what constructing it gave

vars == <<session, soapheaders, connected, session_lifetime, now, login_count,
          logout_count, header_installs, session_sets, ncalls, nticks, last, hist,
          rd_rows, rd, rd_iter, it_dict, it_attributes, it_soap, fc, ctx, rd_wire,
          rd_back, mr_message, mr_failed, eq_a, eq_b, eq_res, rc_args, rc_res>>

clientVars == <<session, soapheaders, connected, session_lifetime, now, login_count,
                logout_count, header_installs, session_sets, ncalls, nticks, last, hist,
                fc, ctx>>

recordVars == <<rd_rows, rd, rd_iter, rd_wire, rd_back>>

typeVars == <<it_dict, it_attributes, it_soap>>

valueVars == <<mr_message, mr_failed, eq_a, eq_b, eq_res, rc_args, rc_res>>

----------------------------------------------------------------------------
(* Bounds *)

MaxCalls == 3

MaxTicks == 2

(* Session ids the login exchange can return. *)
Tokens == {"s1", "s2"}

(* The session_lifetime values a client is built or reconfigured with; 0 stands
   for the constructor's default argument None. *)
LifetimeArgs == {0, 1, 2, -1}

(* How far one clock advance can move time(). *)
TickSteps == {1, 600}

----------------------------------------------------------------------------
(* client.py: the transport boundary *)

DEFAULT_SESSION_LIFETIME == 600

None == <<>>

(* What one invocation of a transport method can do: return a value, time out
   (URLError), or raise a WebFault whose fault has the given faultstring
   ("<absent>": the fault has no faultstring attribute). *)
FaultStrings == {"TableFault", "ListFault", "API_LIMIT_EXCEEDED", "AccountFault",
                 "SomeOtherFault", "<absent>"}

TransportOutcomes ==
    [kind : {"return"}, faultstring : {"<absent>"}, value : Tokens]
    \cup [kind : {"URLError"}, faultstring : {"<absent>"}, value : {"s1"}]
    \cup [kind : {"WebFault"}, faultstring : FaultStrings, value : {"s1"}]

(* Constructing an exception class with the given positional arguments: the name
   of the exception that ends up raised. *)
RuntimeError_init(cls, args) == cls

TableFault_init(args) == IF Len(args) = 2 THEN "TableFault" ELSE "TypeError"

ListFault_init(args) == "ListFault"

(* call with the AccountFault branch left out. *)
call_without_account_fault(method, outcome) ==
    IF outcome.kind = "URLError"
    THEN [raised |-> RuntimeError_init("ConnectError", <<"timed out">>), response |-> None]
    ELSE IF outcome.kind = "WebFault"
    THEN LET fault_name == outcome.faultstring
             error == "detail"
         IN  IF fault_name = "TableFault"
             THEN [raised |-> TableFault_init(<<error>>), response |-> None]
             ELSE IF fault_name = "ListFault"
             THEN [raised |-> ListFault_init(<<error>>), response |-> None]
             ELSE IF fault_name = "API_LIMIT_EXCEEDED"
             THEN [raised |-> RuntimeError_init("ApiLimitError", <<error>>), response |-> None]
             ELSE [raised |-> "ServiceError", response |-> None]
    ELSE [raised |-> "none", response |-> <<outcome.value>>]

(* InteractClient.call: the exception raised ("none": it returned) and the
   response returned. *)
call(method, outcome) ==
    IF outcome.kind = "URLError"
    THEN [raised |-> RuntimeError_init("ConnectError", <<"timed out">>), response |-> None]
    ELSE IF outcome.kind = "WebFault"
    THEN LET fault_name == outcome.faultstring
             error == "detail"
         IN  IF fault_name = "TableFault"
             THEN [raised |-> TableFault_init(<<error>>), response |-> None]
             ELSE IF fault_name = "ListFault"
             THEN [raised |-> ListFault_init(<<error>>), response |-> None]
             ELSE IF fault_name = "API_LIMIT_EXCEEDED"
             THEN [raised |-> RuntimeError_init("ApiLimitError", <<error>>), response |-> None]
             ELSE IF fault_name = "AccountFault"
             THEN [raised |-> RuntimeError_init("AccountFault", <<error>>), response |-> None]
             ELSE [raised |-> "ServiceError", response |-> None]
    ELSE [raised |-> "none", response |-> <<outcome.value>>]

(* InteractClient.login: LoginResult(self.call('login', ...)); session_id is the
   response's sessionId. *)
login(outcome) ==
    LET r == call("login", outcome)
    IN  [raised |-> r.raised,
         session_id |-> IF r.raised = "none" THEN r.response[1] ELSE "s1"]

(* InteractClient.logout *)
logout(outcome) == call("logout", outcome)

----------------------------------------------------------------------------
(* client.py: the session *)

(* Session.is_expired, for a stored session s *)
is_expired(s, lifetime, t) == s[2] + lifetime <= t

(* The three states of the session manager. *)
SessionState(s, lifetime, t) ==
    IF s = None THEN "Unauthenticated"
    ELSE IF is_expired(s, lifetime, t) THEN "Expired" ELSE "Valid"

State == SessionState(session, session_lifetime, now)

(* One message on the wire: the remote method and the session header the
   transport attached to it. *)
Sent(method) == [method |-> method, header |-> soapheaders]

(* The transport was not invoked. *)
NoOutcome == [kind |-> "not invoked", faultstring |-> "<absent>", value |-> "s1"]

(* The record of one client method call: the method, its argument, the session
   state it started in, the messages it put on the wire, what the transport did
   and the exception the method raised ("none": it returned). *)
Note(op, arg, sent, outcome, raised) ==
    [op |-> op, arg |-> arg, pre |-> State, sent |-> sent, outcome |-> outcome,
     raised |-> raised]

(* A setter that stores the session and leaves the transport as it was. *)
session_setter_no_header(session_id, t) ==
    [session |-> <<session_id, t>>, soapheaders |-> soapheaders, installs |-> 0]

(* The session property's setter: the new _session and soapheaders option, and
   the number of set_options calls it makes. *)
session_setter(session_id, t) ==
    [session |-> <<session_id, t>>, soapheaders |-> <<session_id>>, installs |-> 1]

(* A deleter that forgets the session and leaves its header installed. *)
session_deleter_keeps_header == [session |-> None, soapheaders |-> soapheaders]

(* The session property's deleter. *)
session_deleter == [session |-> None, soapheaders |-> <<>>]

(* connect conditions that log in on every call, or only without a session. *)
connect_needs_login_always(s, lifetime, t) == TRUE

connect_needs_login_ignores_expiry(s, lifetime, t) == s = None

(* connect's condition: not self.session or self.session.is_expired *)
connect_needs_login(s, lifetime, t) == s = None \/ is_expired(s, lifetime, t)

(* disconnect conditions that always log out (the earlier policy), or only on
   abandon. *)
disconnect_needs_logout_always(s, lifetime, t, abandon_session) == TRUE

disconnect_needs_logout_only_abandon(s, lifetime, t, abandon_session) == abandon_session

(* disconnect's condition: (self.session and self.session.is_expired) or abandon_session *)
disconnect_needs_logout(s, lifetime, t, abandon_session) ==
    (s # None /\ is_expired(s, lifetime, t)) \/ abandon_session

(* What the run has seen so far, given the state a step leads to: whether
   connect() has been called, whether at some time since the first connect() the
   client held no non-expired session, whether disconnect was asked to abandon. *)
Seen(s, lifetime, t, abandon, is_connect) ==
    [connects |-> hist.connects \/ is_connect,
     lapsed |-> hist.lapsed \/ ((hist.connects \/ is_connect)
                                   /\ SessionState(s, lifetime, t) # "Valid"),
     abandon |-> hist.abandon \/ abandon]

(* A setter that leaves the marker as it is. *)
connected_setter_ignores(value) == connected

(* The connected property's setter: the new _connected. *)
connected_setter(value) == value

(* InteractClient.connect, as far as the client is concerned *)
connect_call ==
    /\ ncalls < MaxCalls
    /\ ncalls' = ncalls + 1
    /\ \E outcome \in TransportOutcomes :
         IF connect_needs_login(session, session_lifetime, now)
         THEN LET login_result == login(outcome)
              IN  /\ login_count' = login_count + 1
                  /\ IF login_result.raised # "none"
                     THEN /\ UNCHANGED <<session, soapheaders, header_installs,
                                         session_sets, connected>>
                          /\ last' = Note("connect", FALSE, <<Sent("login")>>, outcome,
                                          login_result.raised)
                          /\ hist' = Seen(session, session_lifetime, now, FALSE, TRUE)
                     ELSE LET set == session_setter(login_result.session_id, now)
                          IN  /\ session' = set.session
                              /\ soapheaders' = set.soapheaders
                              /\ header_installs' = header_installs + set.installs
                              /\ session_sets' = session_sets + 1
                              /\ connected' = connected_setter(<<now>>)
                              /\ last' = Note("connect", FALSE, <<Sent("login")>>, outcome,
                                              "none")
                              /\ hist' = Seen(set.session, session_lifetime, now, FALSE, TRUE)
         ELSE /\ connected' = connected_setter(<<now>>)
              /\ last' = Note("connect", FALSE, <<>>, NoOutcome, "none")
              /\ hist' = Seen(session, session_lifetime, now, FALSE, TRUE)
              /\ UNCHANGED <<session, soapheaders, header_installs, session_sets,
                             login_count>>
    /\ UNCHANGED <<session_lifetime, now, logout_count, nticks>>
    /\ UNCHANGED <<recordVars, typeVars, valueVars>>

(* InteractClient.disconnect, as far as the client is concerned *)
disconnect_call ==
    /\ ncalls < MaxCalls
    /\ ncalls' = ncalls + 1
    /\ connected' = connected_setter(None)
    /\ \E abandon_session \in BOOLEAN, outcome \in TransportOutcomes :
         IF disconnect_needs_logout(session, session_lifetime, now, abandon_session)
         THEN LET r == logout(outcome)
              IN  /\ logout_count' = logout_count + 1
                  /\ last' = Note("disconnect", abandon_session, <<Sent("logout")>>,
                                  outcome, r.raised)
                  /\ IF r.raised # "none"
                     THEN /\ UNCHANGED <<session, soapheaders>>
                          /\ hist' = Seen(session, session_lifetime, now, abandon_session,
                                          FALSE)
                     ELSE /\ session' = session_deleter.session
                          /\ soapheaders' = session_deleter.soapheaders
                          /\ hist' = Seen(session_deleter.session, session_lifetime, now,
                                          abandon_session, FALSE)
         ELSE /\ last' = Note("disconnect", abandon_session, <<>>, NoOutcome, "none")
              /\ hist' = Seen(session, session_lifetime, now, abandon_session, FALSE)
              /\ UNCHANGED <<session, soapheaders, logout_count>>
    /\ UNCHANGED <<session_lifetime, now, login_count, header_installs, session_sets,
                   nticks>>
    /\ UNCHANGED <<recordVars, typeVars, valueVars>>

(* No facade operation has been called, no with statement is under way. *)
NoFacadeCall ==
    [op |-> "none", given |-> <<>>, calls |-> <<>>, result |-> [type |-> "NoneType"],
     raised |-> "none", returned |-> [type |-> "NoneType"]]

NoContext == [pc |-> "outside", connects |-> 0, disconnects |-> 0, block |-> "none",
              propagated |-> "none"]

(* connect() called by the program itself, outside a with statement *)
connect == connect_call /\ fc' = NoFacadeCall /\ UNCHANGED ctx

(* disconnect(abandon_session) called by the program itself *)
disconnect == disconnect_call /\ fc' = NoFacadeCall /\ UNCHANGED ctx

(* The arguments of the facade operations: a local domain object of the given
   class, the wire structure its get_soap_object gives, a plain value (a string,
   a list of strings), a list of domain objects. *)
Local(cls) == [kind |-> cls, form |-> "local", items |-> <<>>]

Plain(name) == [kind |-> name, form |-> "plain", items |-> <<>>]

ListOf(items) == [kind |-> "list", form |-> "plain", items |-> items]

get_soap_object_of(x) == [x EXCEPT !.form = "wire"]

PyNone == [type |-> "NoneType"]

(* cls(wire): a result type wrapping a wire structure *)
PyObject(cls, wire) == [type |-> cls, of |-> wire]

(* What an operation gives back: a value, or an exception. *)
Returned(v) == [raised |-> "none", value |-> v]

Raised(e) == [raised |-> e, value |-> PyNone]

(* The responses among the outcomes of a transport method. *)
ResultsOf(outcomes) == {o.value : o \in {t \in outcomes : t.kind = "return"}}

(* A facade operation after its arguments are converted: self.call(method, *args)
   once, then Return, a function of the response, applied to it. *)
facade_call(op, given, method, args, outcomes, Return) ==
    /\ ncalls < MaxCalls
    /\ ncalls' = ncalls + 1
    /\ \E outcome \in outcomes :
         LET r == call(method, outcome)
             ret == IF r.raised = "none" THEN Return[r.response[1]] ELSE Raised(r.raised)
         IN  /\ last' = Note(op, FALSE, <<Sent(method)>>, [outcome EXCEPT !.value = "s1"],
                             ret.raised)
             /\ fc' = [op |-> op, given |-> given,
                       calls |-> <<[method |-> method, args |-> args]>>,
                       result |-> IF r.raised = "none" THEN r.response[1] ELSE PyNone,
                       raised |-> ret.raised, returned |-> ret.value]
    /\ UNCHANGED <<session, soapheaders, connected, session_lifetime, now, login_count,
                   logout_count, header_installs, session_sets, nticks, hist, ctx>>
    /\ UNCHANGED <<recordVars, typeVars, valueVars>>

(* InteractClient.merge_list_members: the arguments are converted and the remote
   method is called; the session is not consulted. *)
merge_list_members ==
    /\ ncalls < MaxCalls
    /\ ncalls' = ncalls + 1
    /\ \E outcome \in TransportOutcomes :
         LET r == call("mergeListMembers", outcome)
             list_ == get_soap_object_of(Local("InteractObject"))
             record_data == get_soap_object_of(Local("RecordData"))
             merge_rule == get_soap_object_of(Local("ListMergeRule"))
         IN  /\ last' = Note("merge_list_members", FALSE, <<Sent("mergeListMembers")>>,
                             outcome, r.raised)
             /\ fc' = [op |-> "merge_list_members",
                       given |-> <<Local("InteractObject"), Local("RecordData"),
                                   Local("ListMergeRule")>>,
                       calls |-> <<[method |-> "mergeListMembers",
                                    args |-> <<list_, record_data, merge_rule>>]>>,
                       result |-> IF r.raised = "none"
                                  THEN [type |-> "suds", id |-> r.response[1], part |-> "whole"]
                                  ELSE PyNone,
                       raised |-> r.raised,
                       returned |-> IF r.raised = "none"
                                    THEN PyObject("MergeResult", [type |-> "suds",
                                                  id |-> r.response[1], part |-> "whole"])
                                    ELSE PyNone]
    /\ UNCHANGED <<session, soapheaders, connected, session_lifetime, now, login_count,
                   logout_count, header_installs, session_sets, nticks, hist>>
    /\ UNCHANGED ctx
    /\ UNCHANGED <<recordVars, typeVars, valueVars>>

(* time() moves on between two calls. *)
Tick ==
    /\ nticks < MaxTicks
    /\ nticks' = nticks + 1
    /\ \E d \in TickSteps : now' = now + d
    /\ hist' = Seen(session, session_lifetime, now', FALSE, FALSE)
    /\ UNCHANGED <<session, soapheaders, connected, session_lifetime, login_count,
                   logout_count, header_installs, session_sets, ncalls, last, fc, ctx>>
    /\ UNCHANGED <<recordVars, typeVars, valueVars>>

(* The caller assigns client.session_lifetime. *)
set_session_lifetime ==
    /\ \E l \in LifetimeArgs \ {0} :
         /\ l # session_lifetime
         /\ session_lifetime' = l
         /\ hist' = Seen(session, l, now, FALSE, FALSE)
    /\ UNCHANGED <<session, soapheaders, connected, now, login_count, logout_count,
                   header_installs, session_sets, ncalls, nticks, last, fc, ctx>>
    /\ UNCHANGED <<recordVars, typeVars, valueVars>>

(* The values the variables of the other specifications rest at. *)
RecordRest ==
    /\ rd_rows = <<>>
    /\ rd = [raised |-> "not built", field_names |-> <<>>, records |-> <<>>]
    /\ rd_iter = [raised |-> "not iterated", rows |-> <<>>]
    /\ rd_wire = [origin |-> "none", raised |-> "none", object |-> <<>>]
    /\ rd_back = [raised |-> "not built", field_names |-> <<>>, records |-> <<>>]

ValueRest ==
    /\ mr_message = <<>> /\ mr_failed = [asked |-> FALSE, list |-> <<>>]
    /\ eq_a = <<>> /\ eq_b = <<>> /\ eq_res = <<>>
    /\ rc_args = <<>> /\ rc_res = "not built"

TypeRest ==
    /\ it_dict = <<>>
    /\ it_attributes = {}
    /\ it_soap = [built |-> FALSE, order |-> <<>>, fields |-> <<>>]

ClientRest ==
    /\ session = None /\ soapheaders = <<>> /\ connected = None
    /\ session_lifetime = DEFAULT_SESSION_LIFETIME /\ now = 1
    /\ login_count = 0 /\ logout_count = 0 /\ header_installs = 0 /\ session_sets = 0
    /\ ncalls = 0 /\ nticks = 0
    /\ last = [op |-> "__init__", arg |-> FALSE, pre |-> "Unauthenticated", sent |-> <<>>,
               outcome |-> NoOutcome, raised |-> "none"]
    /\ hist = [connects |-> FALSE, lapsed |-> FALSE, abandon |-> FALSE]
    /\ fc = NoFacadeCall /\ ctx = NoContext

(* InteractClient.__init__: session_lifetime or DEFAULT_SESSION_LIFETIME; no
   session, not connected, no session header on the transport. *)
Init ==
    /\ session = None /\ soapheaders = <<>> /\ connected = None
    /\ \E arg \in LifetimeArgs :
         session_lifetime = IF arg # 0 THEN arg ELSE DEFAULT_SESSION_LIFETIME
    /\ now = 1
    /\ login_count = 0 /\ logout_count = 0 /\ header_installs = 0 /\ session_sets = 0
    /\ ncalls = 0 /\ nticks = 0
    /\ last = [op |-> "__init__", arg |-> FALSE, pre |-> "Unauthenticated", sent |-> <<>>,
               outcome |-> NoOutcome, raised |-> "none"]
    /\ hist = [connects |-> FALSE, lapsed |-> FALSE, abandon |-> FALSE]
    /\ fc = NoFacadeCall /\ ctx = NoContext
    /\ RecordRest /\ TypeRest /\ ValueRest

Next == connect \/ disconnect \/ merge_list_members \/ Tick \/ set_session_lifetime

Spec == Init /\ [][Next]_vars

----------------------------------------------------------------------------
(* types.py: RecordData *)

MaxRows == 2

FieldKeys == {"foo", "bar"}

FieldValues == {1, 2}

(* A Python dict is the sequence of its <<key, value>> items, in insertion
   order, no key twice. *)
Dicts ==
    {<<>>}
    \cup {<<<<k, v>>>> : k \in FieldKeys, v \in FieldValues}
    \cup {d \in {<<<<k1, v1>>, <<k2, v2>>>> : k1 \in FieldKeys, k2 \in FieldKeys,
                                             v1 \in FieldValues, v2 \in FieldValues} :
             d[1][1] # d[2][1]}

(* dict.keys(), in order *)
keys(d) == [i \in 1..Len(d) |-> d[i][1]]

KeySet(d) == {d[i][1] : i \in 1..Len(d)}

(* A lookup that gives the first value of the dict whatever the key. *)
getitem_first(d, k) == d[1][2]

(* d[k], for a key of d *)
getitem(d, k) == LET i == CHOOSE j \in 1..Len(d) : d[j][1] = k IN d[i][2]

(* Equality of two dicts: the same items, in any order. *)
DictEq(a, b) == {a[i] : i \in 1..Len(a)} = {b[i] : i \in 1..Len(b)}

Min(a, b) == IF a <= b THEN a ELSE b

(* A zip that pairs the names with the values taken from the end. *)
dict_zip_reversed(names, values) ==
    [i \in 1..Min(Len(names), Len(values)) |-> <<names[i], values[Len(values) + 1 - i]>>]

(* dict(zip(names, values)), for names without repetition *)
dict_zip(names, values) ==
    [i \in 1..Min(Len(names), Len(values)) |-> <<names[i], values[i]>>]

(* Python objects that matter to RecordData.__iter__: a list, and a Record
   instance with its field_values attribute. *)
PyList(items) == [type |-> "list", items |-> items]

PyRecord(items) == [type |-> "Record", items |-> items]

(* Whether obj.field_values exists. *)
has_field_values(obj) == obj.type = "Record"

(* The element RecordData.set_attributes appends to records for one row: the
   plain list [record[field_name] for field_name in field_names]. *)
set_attributes_record(record_data, values) == PyList(values)

(* A set_attributes without the assertion: no rows give an object without
   records. *)
RecordData_set_attributes_unchecked(record_data) ==
    IF Len(record_data) = 0
    THEN [raised |-> "none", field_names |-> <<>>, records |-> <<>>]
    ELSE LET field_names == keys(record_data[1])
         IN  IF \E r \in 1..Len(record_data) : ~(KeySet(record_data[1]) \subseteq
                                                    KeySet(record_data[r]))
             THEN [raised |-> "KeyError", field_names |-> <<>>, records |-> <<>>]
             ELSE [raised |-> "none",
                   field_names |-> field_names,
                   records |->
                     [r \in 1..Len(record_data) |->
                        set_attributes_record(record_data,
                          [i \in 1..Len(field_names) |->
                             getitem(record_data[r], field_names[i])])]]

(* RecordData.set_attributes: the exception raised ("none": the object was
   built) and the field_names and records attributes registered. *)
RecordData_set_attributes(record_data) ==
    IF Len(record_data) = 0
    THEN [raised |-> "AssertionError", field_names |-> <<>>, records |-> <<>>]
    ELSE LET field_names == keys(record_data[1])
         IN  IF \E r \in 1..Len(record_data) : ~(KeySet(record_data[1]) \subseteq
                                                    KeySet(record_data[r]))
             THEN [raised |-> "KeyError", field_names |-> <<>>, records |-> <<>>]
             ELSE [raised |-> "none",
                   field_names |-> field_names,
                   records |->
                     [r \in 1..Len(record_data) |->
                        set_attributes_record(record_data,
                          [i \in 1..Len(field_names) |->
                             getitem(record_data[r], field_names[i])])]]

(* list(iter(record_data)): RecordData.__iter__ run to its end. Each record is
   asked for its field_values attribute; the rows yielded before an exception
   are kept. *)
RecordData_iter(obj) ==
    LET n == Len(obj.records)
        bad == {r \in 1..n : ~has_field_values(obj.records[r])}
        stop == IF bad = {} THEN n + 1 ELSE CHOOSE r \in bad : \A q \in bad : r <= q
    IN  [raised |-> IF bad = {} THEN "none" ELSE "AttributeError",
         rows |-> [r \in 1..(stop - 1) |->
                     dict_zip(obj.field_names, obj.records[r].items)]]

(* RecordData(record_data) *)
RecordData_init ==
    /\ rd.raised = "not built"
    /\ rd' = RecordData_set_attributes(rd_rows)
    /\ UNCHANGED <<rd_rows, rd_iter, rd_wire, rd_back>>
    /\ UNCHANGED <<clientVars, typeVars, valueVars>>

(* for row in record_data *)
RecordData_iterate ==
    /\ rd.raised = "none"
    /\ rd_iter.raised = "not iterated"
    /\ rd_iter' = RecordData_iter(rd)
    /\ UNCHANGED <<rd_rows, rd, rd_wire, rd_back>>
    /\ UNCHANGED <<clientVars, typeVars, valueVars>>

InitRecordData ==
    /\ \E n \in 0..MaxRows : rd_rows \in [1..n -> Dicts]
    /\ rd = [raised |-> "not built", field_names |-> <<>>, records |-> <<>>]
    /\ rd_iter = [raised |-> "not iterated", rows |-> <<>>]
    /\ rd_wire = [origin |-> "none", raised |-> "none", object |-> <<>>]
    /\ rd_back = [raised |-> "not built", field_names |-> <<>>, records |-> <<>>]
    /\ ClientRest /\ TypeRest /\ ValueRest

NextRecordData == RecordData_init \/ RecordData_iterate

SpecRecordData == InitRecordData /\ [][NextRecordData]_vars

----------------------------------------------------------------------------
(* types.py: InteractType *)

MaxAttrs == 2

(* A Python str is the sequence of its characters. *)
LowerCase == <<"a", "b", "c", "d", "e", "f", "g", "h", "i", "j", "k", "l", "m",
               "n", "o", "p", "q", "r", "s", "t", "u", "v", "w", "x", "y", "z">>

UpperCase == <<"A", "B", "C", "D", "E", "F", "G", "H", "I", "J", "K", "L", "M",
               "N", "O", "P", "Q", "R", "S", "T", "U", "V", "W", "X", "Y", "Z">>

(* str.upper() and str.lower() of one character *)
upper(c) ==
    IF \E i \in 1..Len(LowerCase) : LowerCase[i] = c
    THEN UpperCase[CHOOSE i \in 1..Len(LowerCase) : LowerCase[i] = c]
    ELSE c

lower(c) ==
    IF \E i \in 1..Len(UpperCase) : UpperCase[i] = c
    THEN LowerCase[CHOOSE i \in 1..Len(UpperCase) : UpperCase[i] = c]
    ELSE c

(* str.capitalize(): the first character upper-cased, the rest lower-cased *)
capitalize(word) ==
    [i \in 1..Len(word) |-> IF i = 1 THEN upper(word[i]) ELSE lower(word[i])]

(* str.split(sep), for a separator of one character *)
RECURSIVE split(_, _)
split(str, sep) ==
    IF \A i \in 1..Len(str) : str[i] # sep
    THEN <<str>>
    ELSE LET i == CHOOSE j \in 1..Len(str) :
                     str[j] = sep /\ \A k \in 1..(j - 1) : str[k] # sep
         IN  <<SubSeq(str, 1, i - 1)>> \o split(SubSeq(str, i + 1, Len(str)), sep)

(* ''.join(words) *)
RECURSIVE join(_)
join(words) == IF words = <<>> THEN <<>> ELSE Head(words) \o join(Tail(words))

(* A to_soap_attribute that capitalizes the first word too. *)
to_soap_attribute_capitalizes_all(attr) ==
    LET words == split(attr, "_")
    IN  join([i \in 1..Len(words) |-> capitalize(words[i])])

(* to_soap_attribute of InteractType.get_soap_object *)
to_soap_attribute(attr) ==
    LET words == split(attr, "_")
    IN  join([i \in 1..Len(words) |-> IF i = 1 THEN words[i] ELSE capitalize(words[i])])

(* The attribute names an instance is given. *)
AttrNames ==
    { <<"r", "e", "d", "_", "f", "i", "s", "h">>,
      <<"r", "e", "d", "F", "i", "s", "h">>,
      <<"r", "e", "d", "_", "F", "I", "S", "H">>,
      <<"f", "o", "o">>,
      <<"_", "r", "e", "d">>,
      <<"R", "e", "d">> }

AttrValues == BOOLEAN

(* setattr(obj, name, value) on an object whose attributes are the function d *)
setattr(d, name, value) ==
    [n \in DOMAIN d \cup {name} |-> IF n = name THEN value ELSE d[n]]

(* The orders in which a for loop can go through the set S. *)
Orders(S) ==
    {o \in [1..Cardinality(S) -> S] : \A i, j \in 1..Cardinality(S) : o[i] = o[j] => i = j}

(* The loop of get_soap_object over the attributes in the given order, on the
   structure the factory created. *)
RECURSIVE set_soap_attributes(_, _, _)
set_soap_attributes(soap_object, d, order) ==
    IF order = <<>>
    THEN soap_object
    ELSE set_soap_attributes(
             setattr(soap_object, to_soap_attribute(Head(order)), d[Head(order)]),
             d, Tail(order))

(* InteractType.soap_attribute *)
soap_attribute ==
    /\ \E name \in AttrNames, value \in AttrValues :
         /\ Cardinality(DOMAIN it_dict \cup {name}) <= MaxAttrs
         /\ it_dict' = setattr(it_dict, name, value)
         /\ it_attributes' = it_attributes \cup {name}
    /\ UNCHANGED it_soap
    /\ UNCHANGED <<clientVars, recordVars, valueVars>>

(* An attribute is assigned on the instance without being registered, as
   __init__ assigns _attributes. *)
plain_attribute ==
    /\ \E name \in AttrNames, value \in AttrValues :
         /\ Cardinality(DOMAIN it_dict \cup {name}) <= MaxAttrs
         /\ it_dict' = setattr(it_dict, name, value)
    /\ UNCHANGED <<it_attributes, it_soap>>
    /\ UNCHANGED <<clientVars, recordVars, valueVars>>

(* InteractType.get_soap_object, on a structure the factory creates without
   fields; a set is iterated in an order the program does not choose. *)
get_soap_object ==
    /\ \E order \in Orders(it_attributes) :
         it_soap' = [built |-> TRUE, order |-> order,
                     fields |-> set_soap_attributes(<<>>, it_dict, order)]
    /\ UNCHANGED <<it_dict, it_attributes>>
    /\ UNCHANGED <<clientVars, recordVars, valueVars>>

InitInteractType ==
    /\ it_dict = <<>>
    /\ it_attributes = {}
    /\ it_soap = [built |-> FALSE, order |-> <<>>, fields |-> <<>>]
    /\ ClientRest /\ RecordRest /\ ValueRest

NextInteractType == soap_attribute \/ plain_attribute \/ get_soap_object

SpecInteractType == InitInteractType /\ [][NextInteractType]_vars

----------------------------------------------------------------------------
(* types.py: MergeResult.failed *)

MaxPieces == 2

Digits == {"0", "1", "2", "3", "4", "5", "6", "7", "8", "9"}

(* The pieces the error messages are put together from: texts are sequences
   of characters. *)
Pieces ==
    { <<"R", "e", "c", "o", "r", "d", " ", "1", " ", "=">>,
      <<"R", "e", "c", "o", "r", "d", " ", "2", " ", "=">>,
      <<"R", "e", "c", "o", "r", "d", " ", "0", " ", "=">>,
      <<"R", "e", "c", "o", "r", "d", " ", "1", "2", " ", "=">>,
      <<"R", "e", "c", "o", "r", "d", " ", "0", "7", " ", "=">>,
      <<"R", "e", "c", "o", "r", "d", " ", " ", "=">>,
      <<"R", "e", "c", "o", "r", "d", " ", "x", " ", "=">>,
      <<"R", "e", "c", "o", "r", "d", " ", "3">>,
      <<"r", "e", "c", "o", "r", "d", " ", "3", " ", "=">>,
      <<" ", "T", ",", " ">> }

RECURSIVE concat(_)
concat(pieces) ==
    IF pieces = <<>> THEN <<>> ELSE Head(pieces) \o concat(Tail(pieces))

(* The errorMessage values a merge result arrives with; None and '' are both <<>>. *)
ErrorMessages == {concat(ps) : ps \in UNION {[1..n -> Pieces] : n \in 0..MaxPieces}}

(* text has the literal lit at position i *)
literal_at(text, i, lit) ==
    /\ i + Len(lit) - 1 <= Len(text)
    /\ \A k \in 1..Len(lit) : text[i + k - 1] = lit[k]

(* [0-9]* from position i, greedy: the position after the last digit taken *)
RECURSIVE digits_end(_, _)
digits_end(text, i) ==
    IF i <= Len(text) /\ text[i] \in Digits THEN digits_end(text, i + 1) ELSE i

(* re.findall of the pattern 'Record (D) =', D = [0-9] starred, in text from
   position i on: the groups of the non-overlapping matches, left to right *)
RECURSIVE findall(_, _)
findall(text, i) ==
    IF i > Len(text) THEN <<>>
    ELSE IF literal_at(text, i, <<"R", "e", "c", "o", "r", "d", " ">>)
         THEN LET j == digits_end(text, i + 7)
              IN  IF literal_at(text, j, <<" ", "=">>)
                  THEN <<SubSeq(text, i + 7, j - 1)>> \o findall(text, j + 2)
                  ELSE findall(text, i + 1)
         ELSE findall(text, i + 1)

(* str.isnumeric, for the characters the pattern can capture *)
isnumeric(f) == f # <<>> /\ \A k \in 1..Len(f) : f[k] \in Digits

digit_value(c) == CHOOSE n \in 0..9 : <<"0", "1", "2", "3", "4", "5", "6", "7", "8", "9">>[n + 1] = c

(* int(f), f decimal *)
RECURSIVE int(_)
int(f) == IF f = <<>> THEN 0 ELSE 10 * int(SubSeq(f, 1, Len(f) - 1)) + digit_value(f[Len(f)])

PyInt(n) == [type |-> "int", value |-> n]
PyStr(f) == [type |-> "str", value |-> f]
PyFalse == [type |-> "bool", value |-> FALSE]

(* the truth value Python gives an int, a str, a bool or None *)
truthy(v) ==
    CASE v.type = "int" -> v.value # 0
      [] v.type = "str" -> v.value # <<>>
      [] v.type = "bool" -> v.value
      [] v.type = "NoneType" -> FALSE

(* f.isnumeric() and int(f) or f *)
and_or(f) ==
    LET first == IF isnumeric(f) THEN PyInt(int(f)) ELSE PyFalse
    IN  IF truthy(first) THEN first ELSE PyStr(f)

(* MergeResult.failed *)
failed(error_message) ==
    IF error_message # <<>>
    THEN LET found == findall(error_message, 1)
         IN  [k \in 1..Len(found) |-> and_or(found[k])]
    ELSE <<>>

(* reading the failed property of a MergeResult *)
MergeResult_failed ==
    /\ ~mr_failed.asked
    /\ mr_failed' = [asked |-> TRUE, list |-> failed(mr_message)]
    /\ UNCHANGED <<mr_message, eq_a, eq_b, eq_res, rc_args, rc_res>>
    /\ UNCHANGED <<clientVars, recordVars, typeVars>>

EqualityRest == eq_a = <<>> /\ eq_b = <<>> /\ eq_res = <<>>

RecipientRest == rc_args = <<>> /\ rc_res = "not built"

(* MergeResult.set_attributes: the result carries the errorMessage it came with *)
InitMergeResult ==
    /\ mr_message \in ErrorMessages
    /\ mr_failed = [asked |-> FALSE, list |-> <<>>]
    /\ EqualityRest /\ RecipientRest
    /\ ClientRest /\ RecordRest /\ TypeRest

NextMergeResult == MergeResult_failed

SpecMergeResult == InitMergeResult /\ [][NextMergeResult]_vars

----------------------------------------------------------------------------
(* client.py: the facade operations *)

MaxItems == 2

(* What the transport hands back: one wire structure, or a list of them. *)
SudsItem(i) == [type |-> "suds", id |-> i, part |-> "whole"]

PyTrue == [type |-> "bool", value |-> TRUE]

(* result.name *)
getattr_of(result, name) == [result EXCEPT !.part = name]

(* hasattr(result, '__iter__') *)
has_iter(result) == result.type = "list"

TransportFailures ==
    {[o EXCEPT !.value = PyNone] : o \in {t \in TransportOutcomes : t.kind # "return"}}

Returns(values) == [kind : {"return"}, faultstring : {"<absent>"}, value : values]

SingleOutcomes == TransportFailures \cup Returns({SudsItem(1)})

BoolOutcomes == TransportFailures \cup Returns({PyTrue})

MultiOutcomes ==
    SingleOutcomes \cup Returns({PyList([i \in 1..k |-> SudsItem(i)]) : k \in 0..MaxItems})

(* [cls(result) for result in results] *)
each_wrapped(cls, results) ==
    IF has_iter(results)
    THEN Returned(PyList([i \in 1..Len(results.items) |-> PyObject(cls, results.items[i])]))
    ELSE Raised("TypeError")

(* if hasattr(result, '__iter__'): return [cls(r) for r in result]
   return [cls(result)] *)
one_or_each_wrapped(cls, result) ==
    IF has_iter(result)
    THEN each_wrapped(cls, result)
    ELSE Returned(PyList(<<PyObject(cls, result)>>))

login_with_certificate ==
    facade_call("login_with_certificate", <<Plain("encrypted_server_challenge")>>,
                "loginWithCertificate", <<Plain("encrypted_server_challenge")>>,
                SingleOutcomes,
                [result \in ResultsOf(SingleOutcomes) |-> Returned(PyObject("LoginResult", result))])

authenticate_server ==
    facade_call("authenticate_server", <<Plain("username"), Plain("client_challenge")>>,
                "authenticateServer", <<Plain("username"), Plain("client_challenge")>>,
                SingleOutcomes,
                [result \in ResultsOf(SingleOutcomes) |-> Returned(PyObject("ServerAuthResult", result))])

merge_list_members_RIID ==
    LET list_ == get_soap_object_of(Local("InteractObject"))
    IN  facade_call("merge_list_members_RIID",
                    <<Local("InteractObject"), Local("RecordData"), Local("ListMergeRule")>>,
                    "mergeListMembersRIID",
                    <<list_, Local("RecordData"), Local("ListMergeRule")>>,
                    SingleOutcomes,
                    [result \in ResultsOf(SingleOutcomes) |-> Returned(PyObject("RecipientResult",
                                                      getattr_of(result, "recipientResult")))])

delete_list_members ==
    LET list_ == get_soap_object_of(Local("InteractObject"))
    IN  facade_call("delete_list_members",
                    <<Local("InteractObject"), Plain("query_column"), Plain("ids_to_delete")>>,
                    "deleteListMembers",
                    <<list_, Plain("query_column"), Plain("ids_to_delete")>>,
                    MultiOutcomes,
                    [result \in ResultsOf(MultiOutcomes) |-> one_or_each_wrapped("DeleteResult", result)])

retrieve_list_members ==
    LET list_ == get_soap_object_of(Local("InteractObject"))
    IN  facade_call("retrieve_list_members",
                    <<Local("InteractObject"), Plain("query_column"), Plain("field_list"),
                      Plain("ids_to_retrieve")>>,
                    "retrieveListMembers",
                    <<list_, Plain("query_column"), Plain("field_list"),
                      Plain("ids_to_retrieve")>>,
                    SingleOutcomes,
                    [result \in ResultsOf(SingleOutcomes) |-> Returned(PyObject("RecordData",
                                                      getattr_of(result, "recordData")))])

create_table ==
    LET table == get_soap_object_of(Local("InteractObject"))
    IN  facade_call("create_table", <<Local("InteractObject"), Plain("fields")>>,
                    "createTable", <<table, Plain("fields")>>,
                    BoolOutcomes, [result \in ResultsOf(BoolOutcomes) |-> Returned(result)])

create_table_with_pk ==
    LET table == get_soap_object_of(Local("InteractObject"))
    IN  facade_call("create_table_with_pk",
                    <<Local("InteractObject"), Plain("fields"), Plain("primary_keys")>>,
                    "createTableWithPK", <<table, Plain("fields"), Plain("primary_keys")>>,
                    BoolOutcomes, [result \in ResultsOf(BoolOutcomes) |-> Returned(result)])

delete_table ==
    LET table == get_soap_object_of(Local("InteractObject"))
    IN  facade_call("delete_table", <<Local("InteractObject")>>,
                    "deleteTable", <<table>>,
                    BoolOutcomes, [result \in ResultsOf(BoolOutcomes) |-> Returned(result)])

delete_profile_extension_members ==
    LET profile_extension == get_soap_object_of(Local("InteractObject"))
    IN  facade_call("delete_profile_extension_members",
                    <<Local("InteractObject"), Plain("query_column"), Plain("ids_to_delete")>>,
                    "retrieveProfileExtensionRecords",
                    <<profile_extension, Plain("query_column"), Plain("ids_to_delete")>>,
                    MultiOutcomes,
                    [result \in ResultsOf(MultiOutcomes) |-> one_or_each_wrapped("DeleteResult", result)])

retrieve_profile_extension_records ==
    LET profile_extension == get_soap_object_of(Local("InteractObject"))
    IN  facade_call("retrieve_profile_extension_records",
                    <<Local("InteractObject"), Plain("field_list"), Plain("ids_to_retrieve"),
                      Plain("query_column")>>,
                    "retrieveProfileExtensionRecords",
                    <<profile_extension, Plain("query_column"), Plain("field_list"),
                      Plain("ids_to_retrieve")>>,
                    SingleOutcomes,
                    [result \in ResultsOf(SingleOutcomes) |-> Returned(PyObject("RecordData", result))])

truncate_table ==
    LET table == get_soap_object_of(Local("InteractObject"))
    IN  facade_call("truncate_table", <<Local("InteractObject")>>,
                    "truncateTable", <<table>>,
                    BoolOutcomes, [result \in ResultsOf(BoolOutcomes) |-> Returned(result)])

delete_table_records ==
    LET table == get_soap_object_of(Local("InteractObject"))
    IN  facade_call("delete_table_records",
                    <<Local("InteractObject"), Plain("query_column"), Plain("ids_to_delete")>>,
                    "deleteTableRecords",
                    <<table, Plain("query_column"), Plain("ids_to_delete")>>,
                    MultiOutcomes,
                    [result \in ResultsOf(MultiOutcomes) |-> one_or_each_wrapped("DeleteResult", result)])

merge_table_records ==
    LET table == get_soap_object_of(Local("InteractObject"))
        record_data == get_soap_object_of(Local("RecordData"))
    IN  facade_call("merge_table_records",
                    <<Local("InteractObject"), Local("RecordData"), Plain("match_column_names")>>,
                    "mergeTableRecords",
                    <<table, record_data, Plain("match_column_names")>>,
                    SingleOutcomes,
                    [result \in ResultsOf(SingleOutcomes) |-> Returned(PyObject("MergeResult", result))])

merge_table_records_with_pk ==
    LET table == get_soap_object_of(Local("InteractObject"))
        record_data == get_soap_object_of(Local("RecordData"))
    IN  facade_call("merge_table_records_with_pk",
                    <<Local("InteractObject"), Local("RecordData"), Plain("insert_on_no_match"),
                      Plain("update_on_match")>>,
                    "mergeTableRecordsWithPK",
                    <<table, record_data, Plain("insert_on_no_match"), Plain("update_on_match")>>,
                    SingleOutcomes,
                    [result \in ResultsOf(SingleOutcomes) |-> Returned(PyObject("MergeResult", result))])

merge_into_profile_extension ==
    LET profile_extension == get_soap_object_of(Local("InteractObject"))
        record_data == get_soap_object_of(Local("RecordData"))
    IN  facade_call("merge_into_profile_extension",
                    <<Local("InteractObject"), Local("RecordData"), Plain("match_column"),
                      Plain("insert_on_no_match"), Plain("update_on_match")>>,
                    "mergeIntoProfileExtension",
                    <<profile_extension, record_data, Plain("match_column"),
                      Plain("insert_on_no_match"), Plain("update_on_match")>>,
                    MultiOutcomes,
                    [results \in ResultsOf(MultiOutcomes) |-> each_wrapped("RecipientResult", results)])

retrieve_table_records ==
    LET table == get_soap_object_of(Local("InteractObject"))
    IN  facade_call("retrieve_table_records",
                    <<Local("InteractObject"), Plain("query_column"), Plain("field_list"),
                      Plain("ids_to_retrieve")>>,
                    "retrieveTableRecords",
                    <<table, Plain("query_column"), Plain("field_list"),
                      Plain("ids_to_retrieve")>>,
                    SingleOutcomes,
                    [result \in ResultsOf(SingleOutcomes) |-> Returned(PyObject("RecordData", result))])

(* The recipient_data a caller passes to trigger_custom_event: nothing (the
   default, None) or a list of RecipientData. *)
RecipientDataArgs ==
    {Plain("None")} \cup {ListOf([i \in 1..k |-> Local("RecipientData")]) : k \in 0..MaxItems}

(* trigger_custom_event: the comprehension over recipient_data raises TypeError
   for None, before anything is sent. *)
trigger_custom_event ==
    \E recipient_data \in RecipientDataArgs :
        LET given == <<Local("CustomEvent"), recipient_data>>
            custom_event == get_soap_object_of(Local("CustomEvent"))
        IN  IF recipient_data.kind = "list"
            THEN facade_call("trigger_custom_event", given, "triggerCustomEvent",
                             <<custom_event,
                               ListOf([i \in 1..Len(recipient_data.items) |->
                                          get_soap_object_of(recipient_data.items[i])])>>,
                             MultiOutcomes,
                             [results \in ResultsOf(MultiOutcomes) |-> each_wrapped("TriggerResult", results)])
            ELSE /\ ncalls < MaxCalls
                 /\ ncalls' = ncalls + 1
                 /\ last' = Note("trigger_custom_event", FALSE, <<>>, NoOutcome, "TypeError")
                 /\ fc' = [op |-> "trigger_custom_event", given |-> given, calls |-> <<>>,
                           result |-> PyNone, raised |-> "TypeError", returned |-> PyNone]
                 /\ UNCHANGED <<session, soapheaders, connected, session_lifetime, now,
                                login_count, logout_count, header_installs, session_sets,
                                nticks, hist, ctx>>
                 /\ UNCHANGED <<recordVars, typeVars, valueVars>>

(* A client on which only facade operations are called. *)
InitFacade ==
    /\ ClientRest /\ RecordRest /\ TypeRest /\ ValueRest

NextFacade ==
    \/ login_with_certificate
    \/ authenticate_server
    \/ merge_list_members
    \/ merge_list_members_RIID
    \/ delete_list_members
    \/ retrieve_list_members
    \/ create_table
    \/ create_table_with_pk
    \/ delete_table
    \/ delete_profile_extension_members
    \/ retrieve_profile_extension_records
    \/ truncate_table
    \/ delete_table_records
    \/ merge_table_records
    \/ merge_table_records_with_pk
    \/ merge_into_profile_extension
    \/ retrieve_table_records
    \/ trigger_custom_event

SpecFacade == InitFacade /\ [][NextFacade]_vars

----------------------------------------------------------------------------
(* client.py: the client as a context manager *)

(* The exceptions the statements of a with block end with ("none": the block
   runs to its end). *)
BlockExceptions == {"none", "ValueError"}

(* An __exit__ that answers True. *)
exit_value_true == PyTrue

(* What __exit__ gives back: it has no return statement. *)
exit_value == PyNone

(* The with statement: the exception that leaves it, given the exception the
   block ended with, the exception __exit__ raised and the value it returned. *)
with_propagates(block_exc, exit_exc, value) ==
    IF exit_exc # "none" THEN exit_exc
    ELSE IF value.type # "NoneType" /\ truthy(value) THEN "none"
    ELSE block_exc

(* InteractClient.__enter__: self.connect(); when it raises the block and
   __exit__ do not run. *)
__enter__ ==
    /\ ctx.pc = "outside"
    /\ connect_call
    /\ fc' = NoFacadeCall
    /\ ctx' = [ctx EXCEPT !.pc = IF last'.raised = "none" THEN "inside" ELSE "done",
                          !.connects = @ + 1,
                          !.propagated = last'.raised]

(* The block of the with statement comes to its end, or raises. *)
block_ends ==
    /\ ctx.pc = "inside"
    /\ \E exc \in BlockExceptions : ctx' = [ctx EXCEPT !.pc = "exiting", !.block = exc]
    /\ UNCHANGED <<session, soapheaders, connected, session_lifetime, now, login_count,
                   logout_count, header_installs, session_sets, ncalls, nticks, last, hist,
                   fc>>
    /\ UNCHANGED <<recordVars, typeVars, valueVars>>

(* InteractClient.__exit__: self.disconnect(), abandon_session left at False. *)
__exit__ ==
    /\ ctx.pc = "exiting"
    /\ disconnect_call
    /\ last'.arg = FALSE
    /\ fc' = NoFacadeCall
    /\ ctx' = [ctx EXCEPT !.pc = "done",
                          !.disconnects = @ + 1,
                          !.propagated = with_propagates(ctx.block, last'.raised, exit_value)]

(* A program that uses the client in one with statement, and calls it before,
   inside and after it. *)
NextWith ==
    \/ __enter__
    \/ block_ends
    \/ __exit__
    \/ connect
    \/ merge_list_members
    \/ Tick

SpecWith == Init /\ [][NextWith]_vars

----------------------------------------------------------------------------
(* types.py: InteractType.__eq__ *)

EqNames == {"foo", "bar"}

EqValues == {1, 2}

(* InteractType(foo=1, ...): set_attributes registers every keyword argument. *)
InteractType_init(kwargs) == [dict |-> kwargs, attributes |-> DOMAIN kwargs]

Instances == {InteractType_init(kwargs) : kwargs \in UNION {[N -> EqValues] : N \in SUBSET EqNames}}

hasattr(obj, attr) == attr \in DOMAIN obj.dict

(* InteractType.__eq__(self, a): the list of the comparisons is built in full
   before all() looks at it, and getattr raises for an attribute a lacks. *)
InteractType_eq(self, a) ==
    IF \E attr \in self.attributes : ~hasattr(a, attr)
    THEN "AttributeError"
    ELSE IF \A attr \in self.attributes : self.dict[attr] = a.dict[attr]
    THEN "True" ELSE "False"

(* a == b and b == a are evaluated *)
compare ==
    /\ eq_res = <<>>
    /\ eq_res' = <<InteractType_eq(eq_a, eq_b), InteractType_eq(eq_b, eq_a)>>
    /\ UNCHANGED <<eq_a, eq_b, mr_message, mr_failed, rc_args, rc_res>>
    /\ UNCHANGED <<clientVars, recordVars, typeVars>>

MergeResultRest == mr_message = <<>> /\ mr_failed = [asked |-> FALSE, list |-> <<>>]

InitEquality ==
    /\ eq_a \in Instances /\ eq_b \in Instances
    /\ eq_res = <<>>
    /\ MergeResultRest /\ RecipientRest
    /\ ClientRest /\ RecordRest /\ TypeRest

NextEquality == compare

SpecEquality == InitEquality /\ [][NextEquality]_vars

----------------------------------------------------------------------------
(* types.py: RecordData and Record on the wire *)

(* The attribute names RecordData and Record register, and the names the wire
   structures are read by. *)
field_names_attr == <<"f", "i", "e", "l", "d", "_", "n", "a", "m", "e", "s">>

records_attr == <<"r", "e", "c", "o", "r", "d", "s">>

field_values_attr == <<"f", "i", "e", "l", "d", "_", "v", "a", "l", "u", "e", "s">>

fieldNames == <<"f", "i", "e", "l", "d", "N", "a", "m", "e", "s">>

fieldValues == <<"f", "i", "e", "l", "d", "V", "a", "l", "u", "e", "s">>

(* Record(r).get_soap_object(client): field_values = list(r), one registered
   attribute. *)
Record_get_soap_object(r) ==
    set_soap_attributes(<<>>, setattr(<<>>, field_values_attr, r.items),
                        <<field_values_attr>>)

(* RecordData.get_soap_object: the base conversion, the attributes taken in
   the given order, then records replaced by the converted Record of each;
   reading record_data.records raises if the structure has no such field. *)
RecordData_get_soap_object(obj, order) ==
    LET d == setattr(setattr(<<>>, field_names_attr, obj.field_names),
                     records_attr, obj.records)
        record_data == set_soap_attributes(<<>>, d, order)
    IN  IF records_attr \notin DOMAIN record_data
        THEN [raised |-> "AttributeError", object |-> <<>>]
        ELSE [raised |-> "none",
              object |-> setattr(record_data, records_attr,
                                 [k \in 1..Len(record_data[records_attr]) |->
                                     Record_get_soap_object(record_data[records_attr][k])])]

(* RecordData.from_soap_type: the rows zipped from fieldNames and each
   record's fieldValues, then cls(rows). *)
from_soap_type(record_data) ==
    IF \/ fieldNames \notin DOMAIN record_data
       \/ records_attr \notin DOMAIN record_data
       \/ \E k \in 1..Len(record_data[records_attr]) :
              fieldValues \notin DOMAIN record_data[records_attr][k]
    THEN [raised |-> "AttributeError", field_names |-> <<>>, records |-> <<>>]
    ELSE RecordData_set_attributes(
             [k \in 1..Len(record_data[records_attr]) |->
                 dict_zip(record_data[fieldNames], record_data[records_attr][k][fieldValues])])

(* The recordData structures the service answers with: field names, and up to
   MaxRows records of as many values. *)
WireFieldNames == {<<"foo">>, <<"foo", "bar">>, <<"bar", "foo">>}

TransportWires ==
    UNION {{setattr(setattr(<<>>, fieldNames, names), records_attr,
                    [k \in 1..n |-> setattr(<<>>, fieldValues, values[k])]) :
              values \in [1..n -> [1..Len(names) -> FieldValues]]} :
           names \in WireFieldNames, n \in 0..MaxRows}

(* record_data.get_soap_object(client), as the facade does before a merge *)
RecordData_to_wire ==
    /\ rd.raised = "none"
    /\ rd_wire.origin = "none"
    /\ \E order \in Orders({field_names_attr, records_attr}) :
         LET r == RecordData_get_soap_object(rd, order)
         IN  rd_wire' = [origin |-> "get_soap_object", raised |-> r.raised,
                         object |-> r.object]
    /\ UNCHANGED <<rd_rows, rd, rd_iter, rd_back>>
    /\ UNCHANGED <<clientVars, typeVars, valueVars>>

(* RecordData.from_soap_type(record_data), as the facade does with a result *)
RecordData_from_soap_type ==
    /\ rd_wire.origin # "none" /\ rd_wire.raised = "none"
    /\ rd_back.raised = "not built"
    /\ rd_back' = from_soap_type(rd_wire.object)
    /\ UNCHANGED <<rd_rows, rd, rd_iter, rd_wire>>
    /\ UNCHANGED <<clientVars, typeVars, valueVars>>

(* Rows a caller builds a RecordData from, or a structure the service sent. *)
InitRecordWire ==
    /\ rd = [raised |-> "not built", field_names |-> <<>>, records |-> <<>>]
    /\ rd_iter = [raised |-> "not iterated", rows |-> <<>>]
    /\ rd_back = [raised |-> "not built", field_names |-> <<>>, records |-> <<>>]
    /\ \/ /\ \E n \in 0..MaxRows : rd_rows \in [1..n -> Dicts]
          /\ rd_wire = [origin |-> "none", raised |-> "none", object |-> <<>>]
       \/ /\ rd_rows = <<>>
          /\ \E w \in TransportWires :
               rd_wire = [origin |-> "transport", raised |-> "none", object |-> w]
    /\ ClientRest /\ TypeRest /\ ValueRest

NextRecordWire ==
    \/ RecordData_init
    \/ RecordData_iterate
    \/ RecordData_to_wire
    \/ RecordData_from_soap_type

SpecRecordWire == InitRecordWire /\ [][NextRecordWire]_vars

----------------------------------------------------------------------------
(* types.py: Recipient *)

(* The values a caller gives for an identifying argument: None (the default)
   or a number for the ids, None or a string for the address and the number. *)
IdValues == {PyNone, PyInt(0), PyInt(7)}

TextValues == {PyNone, PyStr(<<>>), PyStr(<<"a", "@", "b">>)}

(* any(values) *)
any(values) == \E i \in 1..Len(values) : truthy(values[i])

(* Recipient.set_attributes: the assertion, then the attributes are registered. *)
Recipient_set_attributes(recipient_id, customer_id, email_address, mobile_number) ==
    IF any(<<recipient_id, customer_id, email_address, mobile_number>>)
    THEN "built"
    ELSE "AssertionError"

(* Recipient(list_name, recipient_id=..., customer_id=..., ...) *)
Recipient_init ==
    /\ rc_res = "not built"
    /\ rc_res' = Recipient_set_attributes(rc_args.recipient_id, rc_args.customer_id,
                                          rc_args.email_address, rc_args.mobile_number)
    /\ UNCHANGED <<rc_args, mr_message, mr_failed, eq_a, eq_b, eq_res>>
    /\ UNCHANGED <<clientVars, recordVars, typeVars>>

InitRecipient ==
    /\ rc_args \in [recipient_id : IdValues, customer_id : IdValues,
                    email_address : TextValues, mobile_number : TextValues]
    /\ rc_res = "not built"
    /\ MergeResultRest /\ EqualityRest
    /\ ClientRest /\ RecordRest /\ TypeRest

NextRecipient == Recipient_init

SpecRecipient == InitRecipient /\ [][NextRecipient]_vars

----------------------------------------------------------------------------
(* Properties of the session state machine (Spec) *)

(* The step is a call of the client method op. *)
Calls(op) == ncalls' = ncalls + 1 /\ last'.op = op

(* C1: session reuse. A connect() called while a non-expired session is stored
   performs no login exchange and leaves the stored session (token and issue
   time) as it was; and in every run of connect() and disconnect() calls without
   abandon in which, from the first connect() on, the client always holds a
   non-expired session, the login invocation count is 1. *)
C1_SessionReuse ==
    /\ [][(Calls("connect") /\ State = "Valid")
            => (login_count' = login_count /\ last'.sent = <<>> /\ session' = session)]_vars
    /\ []((hist.connects /\ ~hist.lapsed /\ ~hist.abandon) => login_count = 1)

(* A second connect(), after a disconnect(), reused the session of the first. *)
C1_Witness ==
    /\ last.op = "connect" /\ last.pre = "Valid" /\ last.sent = <<>>
    /\ ncalls = 3 /\ logout_count = 0 /\ nticks > 0
    /\ hist.connects /\ ~hist.lapsed /\ ~hist.abandon /\ login_count = 1

(* C2: session renewal. A connect() called while the stored session is expired
   performs exactly one login exchange and, when that login returns, stores the
   token it returned with issued_at = now. *)
C2_SessionRenewal ==
    [][(Calls("connect") /\ State = "Expired")
         => /\ login_count' = login_count + 1
            /\ Len(last'.sent) = 1 /\ last'.sent[1].method = "login"
            /\ (last'.raised = "none"
                  => /\ last'.outcome.kind = "return"
                     /\ session' = <<last'.outcome.value, now'>>)]_vars

(* A connect() found the stored session expired and replaced it by a new one. *)
C2_Witness ==
    /\ last.op = "connect" /\ last.pre = "Expired" /\ last.raised = "none"
    /\ login_count = 2 /\ session = <<last.outcome.value, now>> /\ session_sets = 2

(* C3: disconnect() without abandon on a stored, non-expired session issues no
   logout exchange and leaves the session, its issue time and the session header
   unchanged; the session is still valid, so the next connect() reuses it. *)
C3_DisconnectKeepsValidSession ==
    [][(Calls("disconnect") /\ ~last'.arg /\ State = "Valid")
         => /\ logout_count' = logout_count /\ last'.sent = <<>>
            /\ session' = session /\ soapheaders' = soapheaders
            /\ ~connect_needs_login(session', session_lifetime', now')]_vars

(* A disconnect() without abandon has been called on a valid session. *)
C3_Witness ==
    /\ last.op = "disconnect" /\ ~last.arg /\ last.pre = "Valid"
    /\ session # None /\ soapheaders = <<session[1]>> /\ connected = None

(* C4 as claimed: disconnect() with abandon, or on an expired session, invokes
   logout once and leaves the session None and the session header removed. *)
C4_AsClaimed ==
    [][(Calls("disconnect") /\ (last'.arg \/ State = "Expired"))
         => /\ logout_count' = logout_count + 1
            /\ session' = None /\ soapheaders' = <<>>]_vars

(* C4, amended: disconnect() with abandon, or on an expired session, invokes the
   logout exchange exactly once; when logout returns, the session is cleared to
   None and the session header is removed; when logout raises, the exception
   reaches the caller and the session and its header stay as they were. *)
C4_DisconnectLogsOut ==
    [][(Calls("disconnect") /\ (last'.arg \/ State = "Expired"))
         => /\ logout_count' = logout_count + 1
            /\ Len(last'.sent) = 1 /\ last'.sent[1].method = "logout"
            /\ (last'.raised = "none" => session' = None /\ soapheaders' = <<>>)
            /\ (last'.raised # "none"
                  => session' = session /\ soapheaders' = soapheaders)]_vars

(* A disconnect() on an expired session, not asked to abandon, logged out and
   cleared the session. *)
C4_Witness ==
    /\ last.op = "disconnect" /\ ~last.arg /\ last.pre = "Expired"
    /\ last.raised = "none" /\ logout_count = 1 /\ session = None /\ soapheaders = <<>>

(* C5: when the login exchange of connect() meets an AccountFault, connect()
   raises AccountFault after that one login attempt, and the stored session, the
   session header and the connected marker are what they were before the call. *)
C5_AccountFaultPropagates ==
    [][(Calls("connect") /\ last'.outcome.kind = "WebFault"
          /\ last'.outcome.faultstring = "AccountFault")
         => /\ last'.raised = "AccountFault"
            /\ login_count' = login_count + 1 /\ Len(last'.sent) = 1
            /\ session' = session /\ soapheaders' = soapheaders
            /\ connected' = connected]_vars

(* A connect() of a client that was connected, over an expired session, raised
   AccountFault. *)
C5_Witness ==
    /\ last.op = "connect" /\ last.raised = "AccountFault" /\ last.pre = "Expired"
    /\ connected # None /\ session # None /\ login_count = 2

(* C6: the session header on the transport is the stored session's token when a
   session is stored and absent when the session is None, and every assignment
   of a session has installed the header once. *)
C6_HeaderFollowsSession ==
    /\ session = None => soapheaders = <<>>
    /\ session # None => soapheaders = <<session[1]>>
    /\ header_installs = session_sets

(* A session was abandoned and a second one stored. *)
C6_Witness ==
    /\ session # None /\ session_sets = 2 /\ logout_count = 1 /\ hist.abandon
    /\ last.outcome.value = "s2"

(* The remote methods that authenticate. *)
AuthenticationExchanges == {"login", "loginWithCertificate", "authenticateServer"}

(* The facade operations that require authentication. *)
AuthenticatedOperations == {"merge_list_members"}

(* C7 as claimed: a facade operation that requires authentication puts nothing
   but an authentication exchange on the wire while the client has no session
   or an expired one. *)
C7_AsClaimed ==
    last.op \in AuthenticatedOperations
        => \A i \in DOMAIN last.sent :
              last.sent[i].method \notin AuthenticationExchanges => last.pre = "Valid"

(* C7, amended: the facade operations are not gated by the session. A call of
   merge_list_members reaches the transport exactly once in every session state,
   Unauthenticated and Expired included; the message carries the stored
   session's token as its session header when a session is stored, valid or
   expired, and no session header when none is. *)
C7_FacadeIsNotGated ==
    last.op = "merge_list_members"
        => /\ Len(last.sent) = 1 /\ last.sent[1].method = "mergeListMembers"
           /\ last.sent[1].header = IF session = None THEN <<>> ELSE <<session[1]>>

(* merge_list_members went to the transport after the session was abandoned. *)
C7_Witness ==
    /\ last.op = "merge_list_members" /\ last.pre = "Unauthenticated"
    /\ Len(last.sent) = 1 /\ last.sent[1].header = <<>> /\ logout_count = 1

(* The exception the fault translation table names for a transport outcome. *)
FaultTable(outcome) ==
    IF outcome.kind = "URLError" THEN "ConnectError"
    ELSE IF outcome.faultstring = "TableFault" THEN "TableFault"
    ELSE IF outcome.faultstring = "ListFault" THEN "ListFault"
    ELSE IF outcome.faultstring = "API_LIMIT_EXCEEDED" THEN "ApiLimitError"
    ELSE IF outcome.faultstring = "AccountFault" THEN "AccountFault"
    ELSE "ServiceError"

(* C8: every call that met a transport timeout or a fault raised the exception
   the fault translation table names for it. *)
C8_FaultTable ==
    last.outcome.kind \in {"URLError", "WebFault"} => last.raised = FaultTable(last.outcome)

----------------------------------------------------------------------------
(* Properties of RecordData (SpecRecordData) *)

(* The rows all have the key set of the first. *)
ConsistentKeys(rows) == \A r \in 1..Len(rows) : KeySet(rows[r]) = KeySet(rows[1])

(* C9: the round-trip law. Iterating a RecordData built from a non-empty
   sequence of rows with a consistent key set yields, without raising, one
   mapping per row, equal to that row, in the order of the rows. *)
C9_RoundTrip ==
    (rd_iter.raised # "not iterated" /\ Len(rd_rows) > 0 /\ ConsistentKeys(rd_rows))
        => /\ rd_iter.raised = "none"
           /\ Len(rd_iter.rows) = Len(rd_rows)
           /\ \A r \in 1..Len(rd_rows) : DictEq(rd_iter.rows[r], rd_rows[r])

----------------------------------------------------------------------------
(* Properties of InteractType (SpecInteractType) *)

(* Camel-casing as the data model states it, read off character by character:
   the '_' characters go; a letter that starts a word after the first word is
   upper-cased; the other letters of the words after the first are lower-cased;
   the first word stays as it is. *)
CamelCase(name) ==
    LET keep == {i \in 1..Len(name) : name[i] # "_"}
        underscores_before(i) == {j \in 1..(i - 1) : name[j] = "_"}
        char(i) == IF underscores_before(i) = {} THEN name[i]
                   ELSE IF name[i - 1] = "_" THEN upper(name[i])
                   ELSE lower(name[i])
        nth(k) == CHOOSE i \in keep : Cardinality({j \in keep : j < i}) = k - 1
    IN  [k \in 1..Cardinality(keep) |-> char(nth(k))]

(* The step is a conversion of the instance to its wire structure. *)
Converts == it_soap' # it_soap

(* C10 as claimed: the structure get_soap_object returns has, for each
   registered attribute, the field of its camel-cased name, equal to the
   attribute's value, and no field that comes from no registered attribute. *)
C10_AsClaimed ==
    [][Converts
         => /\ \A a \in it_attributes :
                 /\ CamelCase(a) \in DOMAIN it_soap'.fields
                 /\ it_soap'.fields[CamelCase(a)] = it_dict[a]
            /\ \A f \in DOMAIN it_soap'.fields : \E a \in it_attributes : f = CamelCase(a)]_vars

(* No other registered attribute has the camel-cased name of a. *)
AloneOnItsField(a) ==
    \A b \in it_attributes : CamelCase(b) = CamelCase(a) => b = a

(* C10, amended: the structure get_soap_object returns has exactly the fields
   named by camel-casing the registered attributes; the field of a registered
   attribute whose camel-cased name no other registered attribute shares equals
   that attribute's value; a field that several registered attributes share
   holds the value of one of them; an attribute never registered gives no field. *)
C10_SoapObjectFields ==
    [][Converts
         => /\ DOMAIN it_soap'.fields = {CamelCase(a) : a \in it_attributes}
            /\ \A a \in it_attributes :
                 AloneOnItsField(a) => it_soap'.fields[CamelCase(a)] = it_dict[a]
            /\ \A f \in DOMAIN it_soap'.fields :
                 \E a \in it_attributes : f = CamelCase(a) /\ it_soap'.fields[f] = it_dict[a]]_vars

(* red_fish = True is registered, foo is an attribute never registered, and
   the structure has redFish = True and neither red_fish nor foo. *)
C10_Witness ==
    /\ it_soap.built
    /\ it_attributes = {<<"r", "e", "d", "_", "f", "i", "s", "h">>}
    /\ DOMAIN it_dict = {<<"r", "e", "d", "_", "f", "i", "s", "h">>, <<"f", "o", "o">>}
    /\ it_dict[<<"r", "e", "d", "_", "f", "i", "s", "h">>] = TRUE
    /\ DOMAIN it_soap.fields = {<<"r", "e", "d", "F", "i", "s", "h">>}
    /\ it_soap.fields[<<"r", "e", "d", "F", "i", "s", "h">>] = TRUE

----------------------------------------------------------------------------
(* Properties of MergeResult (SpecMergeResult) *)

(* The places of the message where a 'Record N =' stands, N a possibly empty
   run of decimal digits, and the place where its N ends. *)
NumberEnds(text, i) ==
    {j \in (i + 7)..(Len(text) + 1) :
        /\ \A k \in (i + 7)..(j - 1) : text[k] \in Digits
        /\ j + 1 <= Len(text) /\ text[j] = " " /\ text[j + 1] = "="}

Occurrences(text) ==
    {i \in 1..Len(text) :
        /\ i + 6 <= Len(text)
        /\ SubSeq(text, i, i + 6) = <<"R", "e", "c", "o", "r", "d", " ">>
        /\ NumberEnds(text, i) # {}}

(* The number a run of decimal digits writes. *)
RECURSIVE Decimal(_)
Decimal(ds) ==
    IF ds = <<>> THEN 0 ELSE 10 * Decimal(SubSeq(ds, 1, Len(ds) - 1)) + digit_value(ds[Len(ds)])

(* What the data model says failed is: for each occurrence in order, the
   integer N, and a match that is not a number passed through as it is. *)
RecordNumbers(text) ==
    LET occ == Occurrences(text)
        nth(k) == CHOOSE i \in occ : Cardinality({o \in occ : o < i}) = k - 1
        number(i) == SubSeq(text, i + 7, (CHOOSE j \in NumberEnds(text, i) : TRUE) - 1)
    IN  [k \in 1..Cardinality(occ) |->
            IF number(nth(k)) = <<>> THEN PyStr(<<>>) ELSE PyInt(Decimal(number(nth(k))))]

(* The two lists have the same length and, place by place, values of the same
   type that are equal. *)
SameValues(xs, ys) ==
    /\ Len(xs) = Len(ys)
    /\ \A k \in 1..Len(xs) : xs[k].type = ys[k].type /\ xs[k].value = ys[k].value

(* C11: failed is the list, in order of occurrence, of the record numbers N
   of every 'Record N =' in the error message, each decimal N as an integer,
   for every N >= 0; it is the empty list when the message is empty or absent
   or has no occurrence. *)
C11_FailedRecordNumbers ==
    mr_failed.asked => SameValues(mr_failed.list, RecordNumbers(mr_message))

----------------------------------------------------------------------------
(* Properties of the facade operations (SpecFacade) *)

(* The operations that give a list of results, and the result type of each. *)
MultiResultOperations ==
    {"delete_list_members", "delete_table_records", "delete_profile_extension_members",
     "merge_into_profile_extension", "trigger_custom_event"}

ResultType(op) ==
    CASE op = "merge_into_profile_extension" -> "RecipientResult"
      [] op = "trigger_custom_event" -> "TriggerResult"
      [] OTHER -> "DeleteResult"

(* The items the transport returned: the single item, or the items of the list. *)
ItemsOf(result) == IF result.type = "list" THEN result.items ELSE <<result>>

(* C12: when the transport returns a single item or an iterable of k >= 1
   items to a multi-result operation, the operation returns a list of wrapped
   results, one per item and in the items' order (of length 1 for the single
   item, of length k for the k items). *)
C12_ListOfWrappedResults ==
    (/\ fc.op \in MultiResultOperations
     /\ fc.result.type \in {"suds", "list"}
     /\ Len(ItemsOf(fc.result)) >= 1)
        => /\ fc.raised = "none"
           /\ fc.returned.type = "list"
           /\ Len(fc.returned.items) = Len(ItemsOf(fc.result))
           /\ \A i \in 1..Len(fc.returned.items) :
                /\ fc.returned.items[i].type = ResultType(fc.op)
                /\ fc.returned.items[i].of = ItemsOf(fc.result)[i]

----------------------------------------------------------------------------
(* Properties of the with statement (SpecWith) *)

(* The step enters the with statement; the step leaves it after its block. *)
Enters == ctx.pc = "outside" /\ ctx'.pc # "outside"

Leaves == ctx.pc = "exiting" /\ ctx'.pc = "done"

(* C13 as claimed: entering the with statement calls connect() once, leaving
   it calls disconnect() once whether the block ended normally or raised, an
   exception raised in the block propagates to the caller, and after the
   block connected is falsy. *)
C13_AsClaimed ==
    [][/\ Enters => Calls("connect")
       /\ Leaves => /\ Calls("disconnect")
                    /\ ctx'.connects = 1 /\ ctx'.disconnects = 1
                    /\ ctx.block # "none" => ctx'.propagated = ctx.block
                    /\ connected' = None]_vars

(* C13, amended: entering the with statement calls connect() once, leaving it
   calls disconnect() once whether the block ended normally or raised, and
   after the block connected is falsy; when that disconnect() returns, the
   exception raised in the block (if any) propagates to the caller; when it
   raises, its own exception propagates instead. *)
C13_ScopedResource ==
    [][/\ Enters => Calls("connect")
       /\ Leaves => /\ Calls("disconnect")
                    /\ ctx'.connects = 1 /\ ctx'.disconnects = 1
                    /\ last'.raised = "none" => ctx'.propagated = ctx.block
                    /\ last'.raised # "none" => ctx'.propagated = last'.raised
                    /\ connected' = None]_vars

(* A with statement was left whose block raised and whose disconnect()
   returned: the block's exception propagated and connected is falsy. *)
C13_Witness ==
    /\ ctx.pc = "done" /\ ctx.connects = 1 /\ ctx.disconnects = 1
    /\ ctx.block = "ValueError" /\ ctx.propagated = "ValueError"
    /\ last.op = "disconnect" /\ last.raised = "none"
    /\ connected = None

----------------------------------------------------------------------------
(* Properties of InteractType equality (SpecEquality) *)

(* Every attribute either instance registered is an attribute of both, with
   equal values. *)
PairwiseEqual(a, b) ==
    \A attr \in a.attributes \cup b.attributes :
        /\ attr \in DOMAIN a.dict /\ attr \in DOMAIN b.dict
        /\ a.dict[attr] = b.dict[attr]

(* C14: a == b is True if and only if every registered attribute compares
   equal pairwise between a and b, and b == a gives the same answer, also
   when a and b registered different sets of attributes. *)
C14_EqualityIsPairwise ==
    eq_res # <<>>
        => /\ eq_res[1] = (IF PairwiseEqual(eq_a, eq_b) THEN "True" ELSE "False")
           /\ eq_res[2] = eq_res[1]

----------------------------------------------------------------------------
(* Properties of RecordData built from rows and from the wire (SpecRecordWire) *)

(* C15: a RecordData built from no rows fails with the validation error
   (AssertionError), also when the rows come from a wire structure without
   records; no RecordData without records is ever built. *)
C15_EmptyRowsRejected ==
    /\ (rd.raised # "not built" /\ rd_rows = <<>>) => rd.raised = "AssertionError"
    /\ (/\ rd_back.raised # "not built"
        /\ rd_wire.origin = "transport"
        /\ rd_wire.object[records_attr] = <<>>) => rd_back.raised = "AssertionError"
    /\ rd.raised = "none" => Len(rd.records) >= 1
    /\ rd_back.raised = "none" => Len(rd_back.records) >= 1

(* RecordData([]) failed, and so did from_soap_type on a structure the service
   sent without records. *)
C15_Witness ==
    /\ rd_rows = <<>> /\ rd.raised = "AssertionError"
    /\ rd_wire.origin = "transport" /\ rd_wire.object[records_attr] = <<>>
    /\ rd_back.raised = "AssertionError"

(* Row r has the key k; the items of row r. *)
HasKey(row, k) == \E i \in 1..Len(row) : row[i][1] = k

Items(row) == {row[i] : i \in 1..Len(row)}

(* Some row lacks a field the first row declares. *)
SomeRowLacksAField ==
    \E r \in 1..Len(rd_rows) : \E i \in 1..Len(rd_rows[1]) : ~HasKey(rd_rows[r], rd_rows[1][i][1])

(* C17: a RecordData built from rows has the first row's keys, in order, as
   field_names, and one record per row, of len(field_names) values, the value
   at position i being the row's value for field_names[i]; when a row lacks a
   declared field the construction fails and nothing is padded. *)
C17_RecordsFollowFieldNames ==
    (rd.raised # "not built" /\ rd_rows # <<>>)
        => IF SomeRowLacksAField
           THEN rd.raised = "KeyError"
           ELSE /\ rd.raised = "none"
                /\ rd.field_names = [i \in 1..Len(rd_rows[1]) |-> rd_rows[1][i][1]]
                /\ Len(rd.records) = Len(rd_rows)
                /\ \A r \in 1..Len(rd_rows) :
                     /\ Len(rd.records[r].items) = Len(rd.field_names)
                     /\ \A i \in 1..Len(rd.field_names) :
                          <<rd.field_names[i], rd.records[r].items[i]>> \in Items(rd_rows[r])

(* Two rows that give their two fields in different orders and with
   different values were built into a RecordData. *)
C17_Witness ==
    /\ rd.raised = "none"
    /\ Len(rd_rows) = 2 /\ Len(rd_rows[1]) = 2 /\ Len(rd_rows[2]) = 2
    /\ rd_rows[1][1][1] # rd_rows[2][1][1]
    /\ rd_rows[1][1][2] # rd_rows[1][2][2]
    /\ Len(rd.records) = 2

(* C18: a RecordData built from rows, converted with get_soap_object and
   built back with from_soap_type, has the same field_names in the same order
   and the same records, in the same order with the same values. *)
C18_WireRoundTrip ==
    (rd_wire.origin = "get_soap_object" /\ rd_back.raised # "not built")
        => /\ rd_back.raised = "none"
           /\ rd_back.field_names = rd.field_names
           /\ rd_back.records = rd.records

(* A RecordData of two fields and two different records went to the wire and
   back. *)
C18_Witness ==
    /\ rd_wire.origin = "get_soap_object" /\ rd_back.raised = "none"
    /\ Len(rd.field_names) = 2 /\ Len(rd.records) = 2
    /\ rd.records[1] # rd.records[2]
    /\ rd.records[1].items[1] # rd.records[1].items[2]
    /\ rd_back.records = rd.records

----------------------------------------------------------------------------
(* Properties of Recipient (SpecRecipient) *)

NonNull(v) == v.type # "NoneType"

(* C16: constructing a Recipient succeeds if and only if at least one of
   recipient_id, customer_id, email_address, mobile_number is not None, and
   fails exactly when all four are None. *)
C16_OneIdentifierRequired ==
    rc_res # "not built"
        => (rc_res = "built" <=> \/ NonNull(rc_args.recipient_id)
                                 \/ NonNull(rc_args.customer_id)
                                 \/ NonNull(rc_args.email_address)
                                 \/ NonNull(rc_args.mobile_number))

(* The remote method each facade operation is there for. *)
RemoteMethod(op) ==
    CASE op = "login_with_certificate" -> "loginWithCertificate"
      [] op = "authenticate_server" -> "authenticateServer"
      [] op = "merge_list_members" -> "mergeListMembers"
      [] op = "merge_list_members_RIID" -> "mergeListMembersRIID"
      [] op = "delete_list_members" -> "deleteListMembers"
      [] op = "retrieve_list_members" -> "retrieveListMembers"
      [] op = "create_table" -> "createTable"
      [] op = "create_table_with_pk" -> "createTableWithPK"
      [] op = "delete_table" -> "deleteTable"
      [] op = "truncate_table" -> "truncateTable"
      [] op = "delete_table_records" -> "deleteTableRecords"
      [] op = "merge_table_records" -> "mergeTableRecords"
      [] op = "merge_table_records_with_pk" -> "mergeTableRecordsWithPK"
      [] op = "retrieve_table_records" -> "retrieveTableRecords"
      [] op = "retrieve_profile_extension_records" -> "retrieveProfileExtensionRecords"
      [] op = "delete_profile_extension_members" -> "deleteProfileExtensionRecords"
      [] op = "merge_into_profile_extension" -> "mergeIntoProfileExtension"
      [] op = "trigger_custom_event" -> "triggerCustomEvent"

(* The step is a call of a facade operation. *)
FacadeStep == ncalls' = ncalls + 1 /\ fc'.op # "none"

(* C19: a call of a facade operation invokes the remote method of its own
   purpose, once, and two different facade operations called one after the
   other invoke different remote methods. *)
C19_OwnRemoteMethod ==
    [][FacadeStep
         => /\ Len(fc'.calls) = 1
            /\ fc'.calls[1].method = RemoteMethod(fc'.op)
            /\ (fc.op # "none" /\ fc.calls # <<>> /\ fc.op # fc'.op)
                 => fc.calls[1].method # fc'.calls[1].method]_vars

(* A local domain object that was not converted is among the arguments. *)
Unconverted(args) ==
    \E i \in 1..Len(args) :
        \/ args[i].form = "local"
        \/ \E j \in 1..Len(args[i].items) : args[i].items[j].form = "local"

(* C20: no invocation of the transport by a facade operation has among its
   arguments a local domain object that was not converted to its wire form. *)
C20_ArgumentsConverted ==
    \A c \in 1..Len(fc.calls) : ~Unconverted(fc.calls[c].args)

----------------------------------------------------------------------------
(* Properties of the connected marker and of logout (Spec) *)

(* C21 as claimed: connected is falsy initially, after every disconnect() and
   after a connect() that raised, truthy after a connect() that returned, and
   nothing else changes it: it is truthy only if the most recent connect() or
   disconnect() call was a connect() that returned. *)
C21_AsClaimed ==
    /\ connected = None
    /\ [][/\ Calls("disconnect") => connected' = None
          /\ (Calls("connect") /\ last'.raised # "none") => connected' = None
          /\ (Calls("connect") /\ last'.raised = "none") => connected' # None
          /\ (~Calls("connect") /\ ~Calls("disconnect")) => connected' = connected]_vars

(* C21, amended: connected is falsy initially and after every disconnect(),
   also one that raises; it is truthy after a connect() that returned; a
   connect() that raises leaves it as it was, so that it is truthy only if
   some connect() returned and no disconnect() was called since; nothing else
   changes it. *)
C21_ConnectedMarker ==
    /\ connected = None
    /\ [][/\ Calls("disconnect") => connected' = None
          /\ (Calls("connect") /\ last'.raised # "none") => connected' = connected
          /\ (Calls("connect") /\ last'.raised = "none") => connected' # None
          /\ (~Calls("connect") /\ ~Calls("disconnect")) => connected' = connected]_vars

(* A connect() on an expired session raised, after a connect() that had
   returned: connected is still the time of the first. *)
C21_Witness ==
    /\ last.op = "connect" /\ last.pre = "Expired" /\ last.raised # "none"
    /\ connected # None /\ connected[1] < now /\ login_count = 2

(* The step puts a logout exchange on the wire. *)
SendsLogout == \E i \in 1..Len(last'.sent) : ncalls' = ncalls + 1 /\ last'.sent[i].method = "logout"

(* C22: disconnect() issues the logout exchange only while a session is
   stored; no step sends logout when the session is None. *)
C22_LogoutNeedsSession ==
    [][SendsLogout => (last'.op = "disconnect" /\ session # None)]_vars

====
